---- MODULE Spec2Model ----
(***************************************************************************)
(* Issue Sheet Generator with Project No. (script.py): the run of main()   *)
(* over a Revit model document and an Excel template workbook.             *)
(*                                                                         *)
(* Text is modelled as a sequence of one-character strings, so that        *)
(* strip, zfill, join and the date pattern are computed character by       *)
(* character as Python computes them.                                      *)
(***************************************************************************)
EXTENDS Integers, Sequences, FiniteSets, TLC

\* ------------------------------------------------------------------------
\* Bounds of the model
\* ------------------------------------------------------------------------
MaxRevs == 3
MaxSheets == 3
MaxChunk == 2
MaxTemplatePages == 4
FilterRevs == 4

\* ------------------------------------------------------------------------
\* Text helpers (Python str / unicode operations used by the script)
\* ------------------------------------------------------------------------
DigitChars == <<"0", "1", "2", "3", "4", "5", "6", "7", "8", "9">>

Letters == <<"A", "B", "C", "D", "E", "F", "G", "H", "I", "J", "K", "L", "M",
             "N", "O", "P", "Q", "R", "S", "T", "U", "V", "W", "X", "Y", "Z">>

IsDigit(c) == \E k \in 1..10 : DigitChars[k] = c

IsSpace(c) == c = " "

DigitValue(c) == (CHOOSE k \in 1..10 : DigitChars[k] = c) - 1

\* code point of a character, for Python's lexicographic string comparison
CharCode(c) ==
    IF c = " " THEN 32
    ELSE IF c = "-" THEN 45
    ELSE IF c = "." THEN 46
    ELSE IF c = "/" THEN 47
    ELSE IF IsDigit(c) THEN 48 + DigitValue(c)
    ELSE IF \E k \in 1..26 : Letters[k] = c
         THEN 64 + (CHOOSE k \in 1..26 : Letters[k] = c)
    ELSE 97

RECURSIVE StrLess(_, _)
StrLess(a, b) ==
    IF b = <<>> THEN FALSE
    ELSE IF a = <<>> THEN TRUE
    ELSE IF CharCode(Head(a)) # CharCode(Head(b))
         THEN CharCode(Head(a)) < CharCode(Head(b))
    ELSE StrLess(Tail(a), Tail(b))

\* str(n) for an integer n
RECURSIVE NatStr(_)
NatStr(n) ==
    IF n < 10 THEN <<DigitChars[n + 1]>>
    ELSE NatStr(n \div 10) \o <<DigitChars[(n % 10) + 1]>>

PyStr(n) == IF n < 0 THEN <<"-">> \o NatStr(0 - n) ELSE NatStr(n)

\* int(s) for a string of digits
RECURSIVE PyInt(_)
PyInt(s) ==
    IF s = <<>> THEN 0
    ELSE PyInt(SubSeq(s, 1, Len(s) - 1)) * 10 + DigitValue(s[Len(s)])

Zeros(k) == [i \in 1..k |-> "0"]

\* s.zfill(width)
zfill(s, width) ==
    IF Len(s) >= width THEN s
    ELSE IF s # <<>> /\ s[1] \in {"+", "-"}
         THEN <<s[1]>> \o Zeros(width - Len(s)) \o Tail(s)
    ELSE Zeros(width - Len(s)) \o s

RECURSIVE lstrip(_)
lstrip(s) == IF s # <<>> /\ IsSpace(Head(s)) THEN lstrip(Tail(s)) ELSE s

RECURSIVE rstrip(_)
rstrip(s) ==
    IF s # <<>> /\ IsSpace(s[Len(s)]) THEN rstrip(SubSeq(s, 1, Len(s) - 1))
    ELSE s

\* s.strip()
strip(s) == rstrip(lstrip(s))

\* sep.join(parts)
RECURSIVE join(_, _)
join(sep, parts) ==
    IF parts = <<>> THEN <<>>
    ELSE IF Len(parts) = 1 THEN parts[1]
    ELSE parts[1] \o sep \o join(sep, Tail(parts))

\* date_rx = ^\d{1,2}[./]\d{1,2}[./]\d{2,4}$  applied with re.match
date_rx_match(d) ==
    \E a \in 1..2, b \in 1..2, c \in 2..4 :
        /\ Len(d) = a + 1 + b + 1 + c
        /\ \A k \in 1..a : IsDigit(d[k])
        /\ d[a + 1] \in {".", "/"}
        /\ \A k \in (a + 2)..(a + 1 + b) : IsDigit(d[k])
        /\ d[a + b + 2] \in {".", "/"}
        /\ \A k \in (a + b + 3)..Len(d) : IsDigit(d[k])

\* re.findall(r'\d+', s): the maximal runs of digits of s, left to right
RECURSIVE findall_digits(_, _)
findall_digits(s, run) ==
    IF s = <<>> THEN (IF run = <<>> THEN <<>> ELSE <<run>>)
    ELSE IF IsDigit(Head(s)) THEN findall_digits(Tail(s), Append(run, Head(s)))
    ELSE (IF run = <<>> THEN <<>> ELSE <<run>>) \o findall_digits(Tail(s), <<>>)

RECURSIVE excel_col_name(_)
excel_col_name(n) ==
    IF n < 0 THEN <<>>
    ELSE excel_col_name((n \div 26) - 1) \o <<Letters[(n % 26) + 1]>>

\* ------------------------------------------------------------------------
\* Values held by cells and used as sort keys: a string or an integer
\* ------------------------------------------------------------------------
StrVal(s) == [kind |-> "str", s |-> s, n |-> 0]

IntVal(n) == [kind |-> "int", s |-> <<>>, n |-> n]

\* Python 2 ordering of two keys (an int sorts before any string)
KeyLess(x, y) ==
    IF x.kind = "int" /\ y.kind = "int" THEN x.n < y.n
    ELSE IF x.kind = "str" /\ y.kind = "str" THEN StrLess(x.s, y.s)
    ELSE x.kind = "int"

\* list.sort(key=...): a stable insertion sort of the decorated
\* sequence (entries [key, item]), then the items; keys[i] is the key of
\* seq[i]
RECURSIVE InsertSorted(_, _)
InsertSorted(sorted, x) ==
    IF sorted = <<>> THEN <<x>>
    ELSE IF KeyLess(x.key, sorted[Len(sorted)].key)
         THEN Append(InsertSorted(SubSeq(sorted, 1, Len(sorted) - 1), x),
                     sorted[Len(sorted)])
    ELSE Append(sorted, x)

RECURSIVE SortDecorated(_)
SortDecorated(seq) ==
    IF seq = <<>> THEN <<>>
    ELSE InsertSorted(SortDecorated(SubSeq(seq, 1, Len(seq) - 1)), seq[Len(seq)])

sort_by_key(seq, keys) ==
    LET dec == [i \in 1..Len(seq) |-> [key |-> keys[i], item |-> seq[i]]]
        srt == SortDecorated(dec)
    IN  [i \in 1..Len(seq) |-> srt[i].item]

\* ------------------------------------------------------------------------
\* The model document (Revit API objects as records)
\* ------------------------------------------------------------------------
Range(f) == {f[x] : x \in DOMAIN f}

RECURSIVE Concat(_)
Concat(seqs) == IF seqs = <<>> THEN <<>> ELSE Head(seqs) \o Concat(Tail(seqs))

\* the elements of a set of ids as a list (iteration of a Python set; every
\* use sorts the list on a key that is distinct per element)
RECURSIVE SetToSeq(_)
SetToSeq(S) ==
    IF S = {} THEN <<>>
    ELSE LET m == CHOOSE x \in S : \A y \in S : x <= y
         IN  <<m>> \o SetToSeq(S \ {m})

\* LookupParameter(name) results: no such parameter, a parameter whose
\* AsString() is None, or a parameter holding text
NoParam == [has |-> FALSE, null |-> TRUE, s |-> <<>>]

NullText == [has |-> TRUE, null |-> TRUE, s |-> <<>>]

Text(s) == [has |-> TRUE, null |-> FALSE, s |-> s]

\* sheet=None, the default of get_rev_number's second argument
NoSheet == [isViewSheet |-> FALSE, Id |-> 0]

\* doc.GetElement(rid) for a revision id
GetRevision(d, rid) == CHOOSE r \in Range(d.revisions) : r.Id = rid

\* sheet.GetRevisionNumberOnSheet(revId)
GetRevisionNumberOnSheet(d, sheetId, revId) == d.numberOnSheet[<<sheetId, revId>>]

get_rev_number(d, revision, sheet) ==
    IF sheet.isViewSheet
    THEN StrVal(GetRevisionNumberOnSheet(d, sheet.Id, revision.Id))
    ELSE IF d.hasRevisionNumber THEN StrVal(revision.RevisionNumber)
    ELSE IntVal(revision.SequenceNumber)

\* ------------------------------------------------------------------------
\* RevisedSheet
\* ------------------------------------------------------------------------
find_clouds(sheet, clouds) ==
    LET view_ids == {sheet.Id} \cup {sheet.viewports[k].ViewId : k \in DOMAIN sheet.viewports}
    IN  SelectSeq(clouds, LAMBDA c : c.OwnerViewId \in view_ids)

find_revisions(sheet, sheet_clouds) ==
    {sheet_clouds[k].RevisionId : k \in DOMAIN sheet_clouds} \cup sheet.additional

RevisedSheet(sheet, clouds) ==
    LET cl == find_clouds(sheet, clouds)
    IN  [_sheet |-> sheet, _clouds |-> cl, _rev_ids |-> find_revisions(sheet, cl)]

sheet_name(rs) == rs._sheet.Name

rev_count(rs) == Cardinality(rs._rev_ids)

DrawingParams == <<"Project Number", "EWP_Project_Originator Code",
                   "EWP_Sheet_Zone Code", "EWP_Sheet_Level Code",
                   "EWP_Sheet_Type Code", "EWP_Project_Role Code",
                   "Sheet Number">>

\* 'Project' in pname
IsProjectParam(pname) ==
    pname \in {"Project Number", "EWP_Project_Originator Code", "EWP_Project_Role Code"}

\* the test  p and p.AsString()
KeepPart(p) == p.has /\ ~p.null /\ p.s # <<>>

get_drawing_number(projectInfo, sheet) ==
    LET P(k) == IF IsProjectParam(DrawingParams[k])
                THEN projectInfo[DrawingParams[k]]
                ELSE sheet.params[DrawingParams[k]]
        kept == SelectSeq([k \in 1..Len(DrawingParams) |-> P(k)], KeepPart)
        parts == [k \in 1..Len(kept) |-> strip(kept[k].s)]
    IN  join(<<"-">>, parts)

\* ------------------------------------------------------------------------
\* Sheet filter and revision filter
\* ------------------------------------------------------------------------
AppearsInSheetList(sheet) == sheet.appears.has /\ sheet.appears.i = 1

KeepSheet(rs) ==
    /\ AppearsInSheetList(rs._sheet)
    /\ Len(rs._sheet.viewports) > 0
    /\ rev_count(rs) > 0

filter_valid_sheets(sheets, clouds) ==
    SelectSeq([k \in 1..Len(sheets) |-> RevisedSheet(sheets[k], clouds)], KeepSheet)

\* raw.ToShortDateString(), or str(raw).strip() when raw is not a DateTime
ShortDate(raw) == IF raw.isDateTime THEN raw.text ELSE strip(raw.text)

Assigned(revised_sheets) ==
    UNION {revised_sheets[k]._rev_ids : k \in DOMAIN revised_sheets}

\* mutation: the date check left out
KeepRevision_any_date(rev, assigned) == rev.Id \in assigned

KeepRevision(rev, assigned) ==
    rev.Id \in assigned /\ date_rx_match(ShortDate(rev.RevisionDate))

RevTuple(d, rev) ==
    [id |-> rev.Id, num |-> get_rev_number(d, rev, NoSheet),
     date_str |-> ShortDate(rev.RevisionDate), desc |-> rev.Description]

TupleNum(t) == t.num

build_filtered_rev_data(d, revisions, revised_sheets) ==
    LET assigned == Assigned(revised_sheets)
        kept == SelectSeq(revisions, LAMBDA rev : KeepRevision(rev, assigned))
        filtered == [k \in 1..Len(kept) |-> RevTuple(d, kept[k])]
    IN  sort_by_key(filtered, [k \in 1..Len(filtered) |-> TupleNum(filtered[k])])

\* ------------------------------------------------------------------------
\* Grid renderer: the cell writes of one page, in program order.  A write
\* is ws.Range[col + row].Value2 = val on the page; sid and rid record the
\* sheet and the revision the write was made for (0 when none).
\* ------------------------------------------------------------------------
CellWrite(page, col, row, val, sid, rid) ==
    [page |-> page, col |-> col, row |-> row, val |-> val, sid |-> sid, rid |-> rid]

HeaderWrites(page, j, t) ==
    LET parts == findall_digits(t.date_str, <<>>)
        col == excel_col_name(3 + j)
    IN  IF Len(parts) # 3 THEN <<>>
        ELSE << CellWrite(page, col, 6, IntVal(PyInt(parts[1])), 0, t.id),
                CellWrite(page, col, 7, IntVal(PyInt(parts[2])), 0, t.id),
                CellWrite(page, col, 8, IntVal(PyInt(parts[3])), 0, t.id) >>

fill_revision_header_chunk(page, rev_chunk) ==
    Concat([k \in 1..Len(rev_chunk) |-> HeaderWrites(page, k - 1, rev_chunk[k])])

\* rev_index = {rid: idx for idx, (rid, _, _, _) in enumerate(rev_chunk)}
RevIndexKeys(rev_chunk) == {rev_chunk[k].id : k \in DOMAIN rev_chunk}

\* mutation: every revision mapped to the first column of the chunk
RevIndex_first(rev_chunk, rid) == 0

RevIndex(rev_chunk, rid) == (CHOOSE k \in DOMAIN rev_chunk : rev_chunk[k].id = rid) - 1

SequenceKey(rev) == IntVal(rev.SequenceNumber)

\* revs = [doc.GetElement(rid) for rid in rs._rev_ids if rid in rev_index]
\* revs.sort(key=lambda r: r.SequenceNumber)
SheetRevs(d, rs, rev_chunk) ==
    LET ids == SetToSeq(rs._rev_ids \cap RevIndexKeys(rev_chunk))
    IN  sort_by_key([k \in 1..Len(ids) |-> GetRevision(d, ids[k])],
                    [k \in 1..Len(ids) |-> SequenceKey(GetRevision(d, ids[k]))])

\* keys of the OrderedDict groups, in order of first insertion
RECURSIVE GroupKeys(_, _)
GroupKeys(revs, seen) ==
    IF revs = <<>> THEN <<>>
    ELSE IF Head(revs).RevisionNumberingSequenceId \in seen
         THEN GroupKeys(Tail(revs), seen)
    ELSE <<Head(revs).RevisionNumberingSequenceId>>
         \o GroupKeys(Tail(revs), seen \cup {Head(revs).RevisionNumberingSequenceId})

GroupOf(revs, key) ==
    SelectSeq(revs, LAMBDA r : r.RevisionNumberingSequenceId = key)

numeric_label(settings, seq_idx) ==
    settings.Prefix
    \o zfill(PyStr(settings.StartNumber + seq_idx - 1), settings.MinimumDigits)
    \o settings.Suffix

\* the label of rev at 1-based position seq_idx of its group
rev_label(d, rev, seq_idx) ==
    LET sid == rev.RevisionNumberingSequenceId
    IN  IF sid \in DOMAIN d.sequences /\ d.sequences[sid].NumberType = "Numeric"
        THEN StrVal(numeric_label(d.sequences[sid], seq_idx))
        ELSE get_rev_number(d, rev, NoSheet)

GroupWrites(d, page, row, sid, grp, rev_chunk) ==
    [m \in 1..Len(grp) |->
        CellWrite(page, excel_col_name(3 + RevIndex(rev_chunk, grp[m].Id)), row,
                  rev_label(d, grp[m], m), sid, grp[m].Id)]

SheetRowWrites(d, page, i, rs, rev_chunk) ==
    LET row == 10 + i
        sid == rs._sheet.Id
        revs == SheetRevs(d, rs, rev_chunk)
        keys == GroupKeys(revs, {})
    IN  << CellWrite(page, <<"A">>, row,
                     StrVal(get_drawing_number(d.projectInfo, rs._sheet)), sid, 0),
           CellWrite(page, <<"B">>, row, StrVal(sheet_name(rs)), sid, 0) >>
        \o Concat([g \in 1..Len(keys) |->
                     GroupWrites(d, page, row, sid, GroupOf(revs, keys[g]), rev_chunk)])

fill_sheet_block_chunk(d, page, sheet_block, rev_chunk) ==
    Concat([k \in 1..Len(sheet_block) |->
              SheetRowWrites(d, page, k - 1, sheet_block[k], rev_chunk)])

\* seq[lo:hi], a Python slice with 0-based bounds
Slice(seq, lo, hi) ==
    LET h == IF hi < Len(seq) THEN hi ELSE Len(seq)
    IN  IF lo >= h THEN <<>> ELSE SubSeq(seq, lo + 1, h)

\* mutation: floor division, losing the last partial block
NumChunks_floor(total, chunk_size) == total \div chunk_size

NumChunks(total, chunk_size) == (total + chunk_size - 1) \div chunk_size

\* mutation: a page access that never fails
ItemExists_always(ws_index, count) == TRUE

\* wb.Sheets.Item[ws_index] succeeds only for a page of the workbook
ItemExists(ws_index, count) == ws_index \in 1..count

\* ------------------------------------------------------------------------
\* State
\* ------------------------------------------------------------------------
VARIABLES
    doc,               \* the model document (never written by the script)
    template,          \* the template workbook file: [exists, pages]
    pc,                \* position of main()
    error,             \* the exception that ended the run, or "none"
    all_sheets, all_clouds, all_revisions,
    revised_sheets, total_revisions,
    fileTouched,       \* the report file has been created (shutil.copy)
    excel,             \* the Excel application: "none", "running", "quit"
    wb,                \* the workbook: "none", "open", "closed"
    released,          \* COM objects passed to Marshal.ReleaseComObject
    rev_chunk_size, sheet_chunk_size,
    rev_data,          \* result of build_filtered_rev_data
    rc, sc,            \* loop indices of fill_all_chunks
    pagesAccessed,     \* the calls wb.Sheets.Item[ws_index], in order
    cellWrites,        \* the cell assignments, in order
    saved,             \* wb.Save() has succeeded
    reads,             \* model-document API reads: [api, late]
    printed,           \* the save path has been printed
    drawing_number     \* result of a direct call of get_drawing_number

vars == << doc, template, pc, error, all_sheets, all_clouds, all_revisions,
           revised_sheets, total_revisions, fileTouched, excel, wb, released,
           rev_chunk_size, sheet_chunk_size, rev_data, rc, sc, pagesAccessed,
           cellWrites, saved, reads, printed, drawing_number >>

\* ------------------------------------------------------------------------
\* Model documents the runs start from
\* ------------------------------------------------------------------------
NumericSeq ==
    [NumberType |-> "Numeric", Prefix |-> <<"A">>, Suffix |-> <<>>,
     StartNumber |-> 1, MinimumDigits |-> 2]

AlphaSeq ==
    [NumberType |-> "Alphanumeric", Prefix |-> <<>>, Suffix |-> <<>>,
     StartNumber |-> 0, MinimumDigits |-> 1]

Sequences12 == (1 :> NumericSeq) @@ (2 :> AlphaSeq)

GoodDate(k) == [isDateTime |-> FALSE, text |-> PyStr(k) \o <<".", "1", "/", "2", "4">>]

BadDate == [isDateTime |-> FALSE, text |-> <<"T", "B", "C">>]

MkRevision(id, seqNo, seqId, date, number) ==
    [Id |-> id, SequenceNumber |-> seqNo, RevisionNumberingSequenceId |-> seqId,
     RevisionDate |-> date, RevisionNumber |-> number, Description |-> <<"R">> \o PyStr(id)]

SheetParams(k) ==
    [n \in {"EWP_Sheet_Zone Code", "EWP_Sheet_Level Code", "EWP_Sheet_Type Code",
            "Sheet Number"} |->
        IF n = "EWP_Sheet_Zone Code" THEN Text(<<"B">>)
        ELSE IF n = "EWP_Sheet_Level Code" THEN Text(<<"L", "2">>)
        ELSE IF n = "EWP_Sheet_Type Code" THEN NoParam
        ELSE Text(<<"S">> \o PyStr(k))]

\* sheet k of the collector; sheet numbers descend along the collector order
MkSheet(k, appears, nViewports, additional) ==
    [Id |-> 100 + k, isViewSheet |-> TRUE, Name |-> <<"N">> \o PyStr(k),
     SheetNumber |-> <<"S">> \o PyStr(9 - k), appears |-> appears,
     viewports |-> [v \in 1..nViewports |-> [ViewId |-> 200 + k]],
     additional |-> additional, params |-> SheetParams(k)]

Flag(i) == [has |-> TRUE, i |-> i]

NoFlag == [has |-> FALSE, i |-> 0]

ProjectInfo(name) ==
    [n \in {"Project Name", "Project Number", "EWP_Project_Originator Code",
            "EWP_Project_Role Code"} |->
        IF n = "Project Name" THEN name
        ELSE IF n = "Project Number" THEN Text(<<"1", "0", "0">>)
        ELSE IF n = "EWP_Project_Originator Code" THEN Text(<<>>)
        ELSE NoParam]

\* per-sheet numbers: the revision's own number, or a sheet-local one
NumberOnSheet(sheets, revisions, local) ==
    [p \in {sheets[k].Id : k \in DOMAIN sheets} \X {revisions[k].Id : k \in DOMAIN revisions} |->
        IF local THEN <<"L">> \o PyStr(p[1] - 100) \o PyStr(p[2])
        ELSE (GetRevision([revisions |-> revisions], p[2])).RevisionNumber]

MkDoc(sheets, clouds, revisions, sequences, hasNumber, local, projectName) ==
    [sheets |-> sheets, clouds |-> clouds, revisions |-> revisions,
     sequences |-> sequences, projectInfo |-> ProjectInfo(projectName),
     hasRevisionNumber |-> hasNumber,
     numberOnSheet |-> NumberOnSheet(sheets, revisions, local)]

FullTemplate == [exists |-> TRUE, pages |-> MaxTemplatePages]

Templates ==
    {[exists |-> FALSE, pages |-> 0]}
    \cup {[exists |-> TRUE, pages |-> n] : n \in 1..MaxTemplatePages}

RevIds == 1..MaxRevs

RevSetChoices == {{1}, 2..MaxRevs, RevIds}

BadDateChoices == {{}, {2}, RevIds}

ProjectNameChoices == {NoParam, NullText, Text(<<" ", "P", " ">>)}

\* revisions 1..MaxRevs in one numeric sequence, those of bad undated
PlainRevisions(bad) ==
    [k \in RevIds |->
        MkRevision(k, 10 * k, 1, IF k \in bad THEN BadDate ELSE GoodDate(k), PyStr(k))]

ListedSheets(revsets) ==
    [k \in 1..Len(revsets) |-> MkSheet(k, Flag(1), 1, revsets[k])]

\* plain documents: up to MaxSheets listed sheets, against every template
InitMain ==
    /\ \E n \in 0..MaxSheets : \E revsets \in [1..n -> RevSetChoices] :
         \E bad \in BadDateChoices :
            doc = MkDoc(ListedSheets(revsets), <<>>, PlainRevisions(bad), Sequences12,
                        TRUE, FALSE, Text(<<"P">>))
    /\ template \in Templates

\* documents that vary the project name parameter
InitProject ==
    /\ \E pn \in ProjectNameChoices :
            doc = MkDoc(ListedSheets(<<RevIds>>), <<>>, PlainRevisions({}), Sequences12,
                        TRUE, FALSE, pn)
    /\ template \in Templates

\* documents that vary the numbering: each revision in the numeric or the
\* alphanumeric sequence (the last one possibly in no sequence), creation
\* order along or against discovery order, per-sheet or per-project numbers
SeqIdChoices ==
    [RevIds -> {1, 2}]
    \cup {[k \in RevIds |-> IF k = MaxRevs THEN 0 ELSE f[k]] : f \in [RevIds -> {1, 2}]}

NumberedRevisions(seqIds, reversed, bad) ==
    [k \in RevIds |->
        MkRevision(k, IF reversed THEN 10 * (MaxRevs + 1 - k) ELSE 10 * k, seqIds[k],
                   IF k \in bad THEN BadDate ELSE GoodDate(k), PyStr(k + 7))]

InitLabels ==
    /\ \E revsets \in {<<RevIds>>, <<2..MaxRevs>>, <<{1}, 2..MaxRevs>>} :
         \E seqIds \in SeqIdChoices, reversed \in BOOLEAN, bad \in {{}, {1}},
            hasNumber \in BOOLEAN, local \in BOOLEAN :
            doc = MkDoc(ListedSheets(revsets), <<>>,
                        NumberedRevisions(seqIds, reversed, bad),
                        Sequences12, hasNumber, local, Text(<<"P">>))
    /\ template = FullTemplate

\* documents that vary what makes a sheet eligible: the flag, the
\* viewports, the attached revisions and the clouds
CloudChoices ==
    { <<>>,
      <<[OwnerViewId |-> 101, RevisionId |-> 2]>>,
      <<[OwnerViewId |-> 201, RevisionId |-> 2]>>,
      <<[OwnerViewId |-> 299, RevisionId |-> 2]>>,
      <<[OwnerViewId |-> 201, RevisionId |-> 2], [OwnerViewId |-> 101, RevisionId |-> 2]>> }

SheetChoices(k) ==
    { MkSheet(k, appears, nvp, additional) :
        appears \in {NoFlag, Flag(0), Flag(1)}, nvp \in 0..1, additional \in {{}, {1}} }

InitSheets ==
    /\ \E s1 \in SheetChoices(1), clouds \in CloudChoices, bad \in BadDateChoices,
          s2 \in {MkSheet(2, Flag(1), 1, {1}), MkSheet(2, Flag(1), 0, {1}),
                  MkSheet(2, Flag(0), 1, {1})} :
            doc = MkDoc(<<s1, s2>>, clouds, PlainRevisions(bad), Sequences12, TRUE,
                        FALSE, Text(<<"P">>))
    /\ template = FullTemplate

InitRun ==
    /\ pc = "start"
    /\ error = "none"
    /\ all_sheets = <<>>
    /\ all_clouds = <<>>
    /\ all_revisions = <<>>
    /\ revised_sheets = <<>>
    /\ total_revisions = 0
    /\ fileTouched = FALSE
    /\ excel = "none"
    /\ wb = "none"
    /\ released = {}
    /\ rev_chunk_size = 0
    /\ sheet_chunk_size = 0
    /\ rev_data = <<>>
    /\ rc = 0
    /\ sc = 0
    /\ pagesAccessed = <<>>
    /\ cellWrites = <<>>
    /\ saved = FALSE
    /\ reads = {}
    /\ printed = FALSE
    /\ drawing_number = <<>>

\* every template against the plain documents; the full template against
\* the documents that vary numbering and eligibility
Init ==
    /\ InitMain \/ InitProject \/ InitLabels \/ InitSheets
    /\ InitRun

\* ------------------------------------------------------------------------
\* main(): one action per step of the script
\* ------------------------------------------------------------------------
NoteReads(kinds) == reads' = reads \cup {[api |-> k, late |-> fileTouched] : k \in kinds}

SheetNumberKey(sheet) == StrVal(sheet.SheetNumber)

\* sorted(collector.ToElements(), key=lambda s: s.SheetNumber)
SortedSheets(sheets) ==
    sort_by_key(sheets, [k \in 1..Len(sheets) |-> SheetNumberKey(sheets[k])])

\* lines 266-284: the three element collectors, sheets sorted by SheetNumber
CollectElements ==
    /\ pc = "start"
    /\ all_sheets' = SortedSheets(doc.sheets)
    /\ all_clouds' = doc.clouds
    /\ all_revisions' = doc.revisions
    /\ NoteReads({"sheet", "cloud", "revision"})
    /\ pc' = "collected"
    /\ UNCHANGED << doc, template, error, revised_sheets, total_revisions,
                    fileTouched, excel, wb, released, rev_chunk_size,
                    sheet_chunk_size, rev_data, rc, sc, pagesAccessed,
                    cellWrites, saved, printed, drawing_number >>

\* lines 287-289: filter_valid_sheets_and_show_count
FilterSheets ==
    /\ pc = "collected"
    /\ revised_sheets' = filter_valid_sheets(all_sheets, all_clouds)
    /\ total_revisions' = Len(all_revisions)
    /\ NoteReads(IF all_sheets = <<>> THEN {} ELSE {"sheet", "parameter", "cloud"})
    /\ pc' = "filtered"
    /\ UNCHANGED << doc, template, error, all_sheets, all_clouds, all_revisions,
                    fileTouched, excel, wb, released, rev_chunk_size,
                    sheet_chunk_size, rev_data, rc, sc, pagesAccessed,
                    cellWrites, saved, printed, drawing_number >>

\* lines 292-295: os.path.exists(template_path), else TaskDialog and sys.exit()
CheckTemplate ==
    /\ pc = "filtered"
    /\ pc' = IF template.exists THEN "template_ok" ELSE "exited"
    /\ UNCHANGED << doc, template, error, all_sheets, all_clouds, all_revisions,
                    revised_sheets, total_revisions, fileTouched, excel, wb,
                    released, rev_chunk_size, sheet_chunk_size, rev_data, rc, sc,
                    pagesAccessed, cellWrites, saved, reads, printed,
                    drawing_number >>

\* lines 297-299: save_file_dialog; a cancelled dialog ends the run
ChooseSavePath ==
    /\ pc = "template_ok"
    /\ \E chosen \in BOOLEAN : pc' = IF chosen THEN "path_chosen" ELSE "exited"
    /\ UNCHANGED << doc, template, error, all_sheets, all_clouds, all_revisions,
                    revised_sheets, total_revisions, fileTouched, excel, wb,
                    released, rev_chunk_size, sheet_chunk_size, rev_data, rc, sc,
                    pagesAccessed, cellWrites, saved, reads, printed,
                    drawing_number >>

\* line 300: shutil.copy(template_path, save_path)
CopyTemplate ==
    /\ pc = "path_chosen"
    /\ fileTouched' = TRUE
    /\ pc' = "copied"
    /\ UNCHANGED << doc, template, error, all_sheets, all_clouds, all_revisions,
                    revised_sheets, total_revisions, excel, wb, released,
                    rev_chunk_size, sheet_chunk_size, rev_data, rc, sc,
                    pagesAccessed, cellWrites, saved, reads, printed,
                    drawing_number >>

\* lines 303-306: Excel.ApplicationClass(), excel.Workbooks.Open(save_path)
LaunchExcel ==
    /\ pc = "copied"
    /\ excel' = "running"
    /\ \E opened \in BOOLEAN :
         IF opened
         THEN wb' = "open" /\ pc' = "opened" /\ error' = error
         ELSE wb' = wb /\ pc' = "crashed" /\ error' = "OpenFailed"
    /\ UNCHANGED << doc, template, all_sheets, all_clouds, all_revisions,
                    revised_sheets, total_revisions, fileTouched, released,
                    rev_chunk_size, sheet_chunk_size, rev_data, rc, sc,
                    pagesAccessed, cellWrites, saved, reads, printed,
                    drawing_number >>

JobNameText == <<"J", "o", "b", " ", "n", "a", "m", "e", ":", " ">>

JobNoText == <<"J", "o", "b", " ", "n", "o", ":", " ">>

\* nm.AsString().strip() if nm else ""
JobText(p) == IF p.has THEN strip(p.s) ELSE <<>>

\* .strip() on the None that AsString() returned raises AttributeError
JobTextRaises(p) == p.has /\ p.null

JobInfoWrites(count, nm, num) ==
    Concat([i \in 1..count |->
        << CellWrite(i, <<"A">>, 6, StrVal(JobNameText \o JobText(nm)), 0, 0),
           CellWrite(i, <<"B">>, 7, StrVal(JobNoText \o JobText(num)), 0, 0) >>])

\* lines 309-319: job name and number on every page of the workbook
FillJobInfo ==
    /\ pc = "opened"
    /\ LET nm == doc.projectInfo["Project Name"]
           num == doc.projectInfo["Project Number"]
       IN  IF JobTextRaises(nm) \/ JobTextRaises(num)
           THEN /\ pc' = "crashed"
                /\ error' = "AttributeError"
                /\ UNCHANGED cellWrites
           ELSE /\ pc' = "job_info_done"
                /\ cellWrites' = cellWrites \o JobInfoWrites(template.pages, nm, num)
                /\ UNCHANGED error
    /\ NoteReads({"project", "parameter"})
    /\ UNCHANGED << doc, template, all_sheets, all_clouds, all_revisions,
                    revised_sheets, total_revisions, fileTouched, excel, wb,
                    released, rev_chunk_size, sheet_chunk_size, rev_data, rc, sc,
                    pagesAccessed, saved, printed, drawing_number >>

num_rev_chunks == NumChunks(Len(rev_data), rev_chunk_size)

num_sheet_chunks == NumChunks(Len(revised_sheets), sheet_chunk_size)

\* lines 194-198: fill_all_chunks up to its loops, for page capacities
\* (rev_chunk_size, sheet_chunk_size)
StartFill ==
    /\ pc = "job_info_done"
    /\ \E rcs \in 1..MaxChunk, scs \in 1..MaxChunk :
         LET data == build_filtered_rev_data(doc, all_revisions, revised_sheets)
         IN  /\ rev_chunk_size' = rcs
             /\ sheet_chunk_size' = scs
             /\ rev_data' = data
             /\ pc' = IF NumChunks(Len(data), rcs) = 0
                         \/ NumChunks(Len(revised_sheets), scs) = 0
                      THEN "filled" ELSE "filling"
    /\ rc' = 0
    /\ sc' = 0
    /\ NoteReads(IF all_revisions = <<>> THEN {} ELSE {"revision"})
    /\ UNCHANGED << doc, template, error, all_sheets, all_clouds, all_revisions,
                    revised_sheets, total_revisions, fileTouched, excel, wb,
                    released, pagesAccessed, cellWrites, saved, printed,
                    drawing_number >>

PageReads(sheet_block, rev_chunk) ==
    IF sheet_block = <<>> THEN {}
    ELSE {"project", "parameter", "sheet"}
         \cup (IF \E k \in DOMAIN sheet_block :
                     sheet_block[k]._rev_ids \cap RevIndexKeys(rev_chunk) # {}
               THEN {"revision", "sequence"} ELSE {})

\* lines 200-207: one iteration of the inner loop of fill_all_chunks
FillPage ==
    /\ pc = "filling"
    /\ LET rev_chunk == Slice(rev_data, rc * rev_chunk_size, (rc + 1) * rev_chunk_size)
           sheet_block == Slice(revised_sheets, sc * sheet_chunk_size,
                                (sc + 1) * sheet_chunk_size)
           ws_index == rc * num_sheet_chunks + sc + 1
           last_sc == sc + 1 = num_sheet_chunks
       IN  /\ pagesAccessed' = Append(pagesAccessed,
                  [ws_index |-> ws_index,
                   revs |-> [k \in 1..Len(rev_chunk) |-> rev_chunk[k].id],
                   sheets |-> [k \in 1..Len(sheet_block) |-> sheet_block[k]._sheet.Id]])
           /\ IF ItemExists(ws_index, template.pages)
              THEN /\ cellWrites' = cellWrites
                          \o fill_revision_header_chunk(ws_index, rev_chunk)
                          \o fill_sheet_block_chunk(doc, ws_index, sheet_block, rev_chunk)
                   /\ NoteReads(PageReads(sheet_block, rev_chunk))
                   /\ sc' = IF last_sc THEN 0 ELSE sc + 1
                   /\ rc' = IF last_sc THEN rc + 1 ELSE rc
                   /\ pc' = IF last_sc /\ rc + 1 = num_rev_chunks
                            THEN "filled" ELSE "filling"
                   /\ UNCHANGED error
              ELSE /\ pc' = "crashed"
                   /\ error' = "PageMissing"
                   /\ UNCHANGED << cellWrites, reads, rc, sc >>
    /\ UNCHANGED << doc, template, all_sheets, all_clouds, all_revisions,
                    revised_sheets, total_revisions, fileTouched, excel, wb,
                    released, rev_chunk_size, sheet_chunk_size, rev_data, saved,
                    printed, drawing_number >>

\* line 325: wb.Save()
SaveWorkbook ==
    /\ pc = "filled"
    /\ \E ok \in BOOLEAN :
         IF ok
         THEN saved' = TRUE /\ pc' = "saved" /\ error' = error
         ELSE saved' = saved /\ pc' = "crashed" /\ error' = "SaveFailed"
    /\ UNCHANGED << doc, template, all_sheets, all_clouds, all_revisions,
                    revised_sheets, total_revisions, fileTouched, excel, wb,
                    released, rev_chunk_size, sheet_chunk_size, rev_data, rc, sc,
                    pagesAccessed, cellWrites, reads, printed, drawing_number >>

\* lines 326-330: wb.Close, excel.Quit, Marshal.ReleaseComObject of both
CleanUp ==
    /\ pc = "saved"
    /\ wb' = "closed"
    /\ excel' = "quit"
    /\ released' = {"wb", "excel"}
    /\ pc' = "cleaned"
    /\ UNCHANGED << doc, template, error, all_sheets, all_clouds, all_revisions,
                    revised_sheets, total_revisions, fileTouched,
                    rev_chunk_size, sheet_chunk_size, rev_data, rc, sc,
                    pagesAccessed, cellWrites, saved, reads, printed,
                    drawing_number >>

\* lines 332-338: garbage collection, then the save path is printed
Finish ==
    /\ pc = "cleaned"
    /\ printed' = TRUE
    /\ pc' = "done"
    /\ UNCHANGED << doc, template, error, all_sheets, all_clouds, all_revisions,
                    revised_sheets, total_revisions, fileTouched, excel, wb,
                    released, rev_chunk_size, sheet_chunk_size, rev_data, rc, sc,
                    pagesAccessed, cellWrites, saved, reads, drawing_number >>

Next ==
    \/ CollectElements
    \/ FilterSheets
    \/ CheckTemplate
    \/ ChooseSavePath
    \/ CopyTemplate
    \/ LaunchExcel
    \/ FillJobInfo
    \/ StartFill
    \/ FillPage
    \/ SaveWorkbook
    \/ CleanUp
    \/ Finish

Spec == Init /\ [][Next]_vars

\* ------------------------------------------------------------------------
\* Direct calls of the two pure functions, over wider inputs
\* ------------------------------------------------------------------------
DateSamples ==
    { [isDateTime |-> FALSE, text |-> <<"1", ".", "2", ".", "2", "4">>],
      [isDateTime |-> FALSE, text |-> <<" ", "0", "1", "/", "0", "2", "/", "2", "0", "2", "4", " ">>],
      [isDateTime |-> TRUE, text |-> <<"3", "/", "1", "4", "/", "2", "0", "2", "5">>],
      [isDateTime |-> FALSE, text |-> <<"1", ".", "2", ".", "3">>],
      [isDateTime |-> FALSE, text |-> <<"1", "-", "2", "-", "2", "4">>] }

NumberSamples == {<<"2">>, <<"1", "0">>}

FilterRevIds == 1..FilterRevs

\* which sheets carry which revisions: one listed sheet with all of them;
\* or a listed sheet with all but the last and an unlisted sheet with the
\* last
FilterSheetChoices ==
    { <<MkSheet(1, Flag(1), 1, FilterRevIds)>>,
      <<MkSheet(1, Flag(1), 1, 1..(FilterRevs - 1)), MkSheet(2, Flag(0), 1, {FilterRevs})>> }

\* revision numbers matter only where the API has Revision.RevisionNumber
FilterNumberChoices(hasNumber) ==
    IF hasNumber THEN [FilterRevIds -> NumberSamples] ELSE {[k \in FilterRevIds |-> <<"2">>]}

InitFilter ==
    /\ \E sheets \in FilterSheetChoices, dates \in [FilterRevIds -> DateSamples],
          hasNumber \in BOOLEAN :
         \E numbers \in FilterNumberChoices(hasNumber) :
            doc = MkDoc(sheets, <<>>,
                        [k \in FilterRevIds |-> MkRevision(k, 10 * (FilterRevs + 1 - k), 1,
                                                           dates[k], numbers[k])],
                        Sequences12, hasNumber, FALSE, Text(<<"P">>))
    /\ template = [exists |-> FALSE, pages |-> 0]
    /\ pc = "call_build_filtered_rev_data"
    /\ error = "none"
    /\ all_sheets = SortedSheets(doc.sheets)
    /\ all_clouds = doc.clouds
    /\ all_revisions = doc.revisions
    /\ revised_sheets = filter_valid_sheets(all_sheets, all_clouds)
    /\ total_revisions = Len(all_revisions)
    /\ fileTouched = FALSE
    /\ excel = "none"
    /\ wb = "none"
    /\ released = {}
    /\ rev_chunk_size = 0
    /\ sheet_chunk_size = 0
    /\ rev_data = <<>>
    /\ rc = 0
    /\ sc = 0
    /\ pagesAccessed = <<>>
    /\ cellWrites = <<>>
    /\ saved = FALSE
    /\ reads = {}
    /\ printed = FALSE
    /\ drawing_number = <<>>

\* rev_data = build_filtered_rev_data(all_revisions, revised_sheets)
CallBuildFilteredRevData ==
    /\ pc = "call_build_filtered_rev_data"
    /\ rev_data' = build_filtered_rev_data(doc, all_revisions, revised_sheets)
    /\ pc' = "returned"
    /\ UNCHANGED << doc, template, error, all_sheets, all_clouds, all_revisions,
                    revised_sheets, total_revisions, fileTouched, excel, wb,
                    released, rev_chunk_size, sheet_chunk_size, rc, sc,
                    pagesAccessed, cellWrites, saved, reads, printed,
                    drawing_number >>

NextFilter == CallBuildFilteredRevData

SpecFilter == InitFilter /\ [][NextFilter]_vars

\* the k-th drawing-number attribute: absent, without text, empty, blank,
\* or a text with blanks around it
AttrSampleText ==
    << <<" ", "1", "0", "0">>, <<"E", " ">>, <<"B">>, <<" ", "L", "2", " ">>,
       <<"T">>, <<"R">>, <<"S", "0", "1">> >>

AttrChoices(k) ==
    {NoParam, NullText, Text(<<>>), Text(<<" ">>), Text(AttrSampleText[k])}

AttrIndex(n) == CHOOSE k \in 1..Len(DrawingParams) : DrawingParams[k] = n

\* one listed sheet; attrs[k] is the k-th drawing-number attribute
DrawingDoc(attrs) ==
    [sheets |-> << [MkSheet(1, Flag(1), 1, {1}) EXCEPT
                      !.params = [n \in DOMAIN SheetParams(1) |-> attrs[AttrIndex(n)]]] >>,
     clouds |-> <<>>,
     revisions |-> PlainRevisions({}),
     sequences |-> Sequences12,
     projectInfo |-> [n \in DOMAIN ProjectInfo(NoParam) |->
                          IF n = "Project Name" THEN Text(<<"P">>)
                          ELSE attrs[AttrIndex(n)]],
     hasRevisionNumber |-> TRUE,
     numberOnSheet |-> NumberOnSheet(<<MkSheet(1, Flag(1), 1, {1})>>, PlainRevisions({}), FALSE)]

InitDrawing ==
    /\ \E a1 \in AttrChoices(1), a2 \in AttrChoices(2), a3 \in AttrChoices(3),
          a4 \in AttrChoices(4), a5 \in AttrChoices(5), a6 \in AttrChoices(6),
          a7 \in AttrChoices(7) :
            doc = DrawingDoc(<<a1, a2, a3, a4, a5, a6, a7>>)
    /\ template = [exists |-> FALSE, pages |-> 0]
    /\ pc = "call_get_drawing_number"
    /\ error = "none"
    /\ all_sheets = doc.sheets
    /\ all_clouds = <<>>
    /\ all_revisions = doc.revisions
    /\ revised_sheets = filter_valid_sheets(all_sheets, all_clouds)
    /\ total_revisions = Len(all_revisions)
    /\ fileTouched = FALSE
    /\ excel = "none"
    /\ wb = "none"
    /\ released = {}
    /\ rev_chunk_size = 0
    /\ sheet_chunk_size = 0
    /\ rev_data = <<>>
    /\ rc = 0
    /\ sc = 0
    /\ pagesAccessed = <<>>
    /\ cellWrites = <<>>
    /\ saved = FALSE
    /\ reads = {}
    /\ printed = FALSE
    /\ drawing_number = <<>>

\* drawing_number = revised_sheets[0].get_drawing_number()
CallGetDrawingNumber ==
    /\ pc = "call_get_drawing_number"
    /\ drawing_number' = get_drawing_number(doc.projectInfo, revised_sheets[1]._sheet)
    /\ pc' = "returned"
    /\ UNCHANGED << doc, template, error, all_sheets, all_clouds, all_revisions,
                    revised_sheets, total_revisions, fileTouched, excel, wb,
                    released, rev_chunk_size, sheet_chunk_size, rev_data, rc, sc,
                    pagesAccessed, cellWrites, saved, reads, printed >>

NextDrawing == CallGetDrawingNumber

SpecDrawing == InitDrawing /\ [][NextDrawing]_vars

\* ------------------------------------------------------------------------
\* Properties
\* ------------------------------------------------------------------------
Terminated == pc \in {"done", "exited", "crashed"}

FillStarted == rev_chunk_size > 0

\* the least q with q * b >= a
CeilDiv(a, b) == CHOOSE q \in 0..a : q * b >= a /\ \A p \in 0..a : p * b >= a => q <= p

\* block number blk (from 0) of seq cut into consecutive blocks of size
BlockOf(seq, size, blk) ==
    [k \in 1..(IF (blk + 1) * size <= Len(seq) THEN size ELSE Len(seq) - blk * size) |->
        seq[blk * size + k]]

RevBlocks == CeilDiv(Len(rev_data), rev_chunk_size)

SheetBlocks == CeilDiv(Len(revised_sheets), sheet_chunk_size)

PagesRequired == RevBlocks * SheetBlocks

\* page k of the report: revision block (k-1) div SheetBlocks, sheet block
\* (k-1) mod SheetBlocks
PlannedPage(k) ==
    [ws_index |-> k,
     revs |-> BlockOf([i \in 1..Len(rev_data) |-> rev_data[i].id], rev_chunk_size,
                      (k - 1) \div SheetBlocks),
     sheets |-> BlockOf([i \in 1..Len(revised_sheets) |-> revised_sheets[i]._sheet.Id],
                        sheet_chunk_size, (k - 1) % SheetBlocks)]

\* C3: on every exit of main after the workbook has been opened, the
\* workbook is closed, Excel has quit and both COM objects are released.
C3_ReleasedOnEveryExit ==
    (Terminated /\ wb # "none")
        => (wb = "closed" /\ excel = "quit" /\ released = {"wb", "excel"})

\* C4: no read of the model document happens after the report file has
\* been touched.
C4_ReadsBeforeFileTouched == \A r \in reads : ~r.late

\* C5: fill_all_chunks addresses pages 1, 2, ... in increasing order, page
\* rc * num_sheet_chunks + sc + 1 with revision block rc and sheet block sc,
\* the blocks being consecutive slices that are full except possibly the
\* last; when it returns it has addressed exactly
\* ceil(R / rev_chunk_size) * ceil(S / sheet_chunk_size) pages.
C5_PagePlan ==
    FillStarted =>
        /\ Len(pagesAccessed) <= PagesRequired
        /\ \A k \in DOMAIN pagesAccessed :
              /\ pagesAccessed[k] = PlannedPage(k)
              /\ Len(pagesAccessed[k].revs) =
                    IF (k - 1) \div SheetBlocks < RevBlocks - 1 THEN rev_chunk_size
                    ELSE Len(rev_data) - (RevBlocks - 1) * rev_chunk_size
              /\ Len(pagesAccessed[k].sheets) =
                    IF (k - 1) % SheetBlocks < SheetBlocks - 1 THEN sheet_chunk_size
                    ELSE Len(revised_sheets) - (SheetBlocks - 1) * sheet_chunk_size
              /\ Len(pagesAccessed[k].revs) \in 1..rev_chunk_size
              /\ Len(pagesAccessed[k].sheets) \in 1..sheet_chunk_size
        /\ pc \in {"filled", "saved", "cleaned", "done"}
              => Len(pagesAccessed) = PagesRequired

\* a completed run of six pages' worth in miniature: 3 revisions at
\* capacity 2 (blocks 2,1) and 3 sheets at capacity 2 (blocks 2,1)
C5_Witness ==
    /\ pc = "done"
    /\ Len(rev_data) = 3 /\ rev_chunk_size = 2
    /\ Len(revised_sheets) = 3 /\ sheet_chunk_size = 2
    /\ Len(pagesAccessed) = 4

\* C6: when the report needs more pages than the template has, the run
\* ends in the failed page access: no cell of a page beyond the template is
\* ever written, nothing is written or saved after the failure, and the
\* run never completes.
C6_PageShortfallIsFatal ==
    (FillStarted /\ PagesRequired > template.pages) =>
        /\ \A k \in DOMAIN cellWrites : cellWrites[k].page <= template.pages
        /\ ~saved
        /\ \/ pc = "filling" /\ error = "none" /\ Len(pagesAccessed) <= template.pages
           \/ /\ pc = "crashed" /\ error = "PageMissing"
              /\ Len(pagesAccessed) = template.pages + 1
              /\ pagesAccessed[Len(pagesAccessed)].ws_index = template.pages + 1
              /\ ~ENABLED Next

C6_Witness ==
    /\ error = "PageMissing"
    /\ PagesRequired > template.pages
    /\ \E k \in DOMAIN cellWrites : cellWrites[k].row >= 10

DocSheet(sid) == CHOOSE s \in Range(doc.sheets) : s.Id = sid

\* revisions of the clouds owned by the sheet or by a view placed on it,
\* and the revisions attached to the sheet
AssociationSet(sheet) ==
    {c.RevisionId : c \in {x \in Range(doc.clouds) :
          x.OwnerViewId = sheet.Id
          \/ \E v \in DOMAIN sheet.viewports : sheet.viewports[v].ViewId = x.OwnerViewId}}
    \cup sheet.additional

IsLabelWrite(w) == w.rid # 0 /\ w.sid # 0 /\ w.row >= 10

IsNumericRevision(rev) ==
    /\ rev.RevisionNumberingSequenceId \in DOMAIN doc.sequences
    /\ doc.sequences[rev.RevisionNumberingSequenceId].NumberType = "Numeric"

\* 1-based rank of rev by SequenceNumber among the revisions of the sheet's
\* association set that share its numbering sequence
SheetLocalPosition(sheet, rev) ==
    Cardinality({rid \in AssociationSet(sheet) :
        /\ GetRevision(doc, rid).RevisionNumberingSequenceId = rev.RevisionNumberingSequenceId
        /\ GetRevision(doc, rid).SequenceNumber <= rev.SequenceNumber})

\* C1: a rendered numeric label is prefix + zero_pad(start + position - 1,
\* digits) + suffix with position the revision's rank among all revisions of
\* the sheet's association set in the same numbering sequence.
C1_NumericLabelIsSheetLocal ==
    \A k \in DOMAIN cellWrites :
        LET w == cellWrites[k]
            rev == GetRevision(doc, w.rid)
            st == doc.sequences[rev.RevisionNumberingSequenceId]
        IN  (IsLabelWrite(w) /\ IsNumericRevision(rev)) =>
                w.val = StrVal(st.Prefix
                               \o zfill(PyStr(st.StartNumber
                                              + SheetLocalPosition(DocSheet(w.sid), rev) - 1),
                                        st.MinimumDigits)
                               \o st.Suffix)

\* C2: a rendered label of a revision whose sequence is not Numeric is the
\* sheet's per-sheet number for it if available, else the revision's stored
\* number, else its sequence number.
C2_OtherLabelPriority ==
    \A k \in DOMAIN cellWrites :
        LET w == cellWrites[k]
            rev == GetRevision(doc, w.rid)
        IN  (IsLabelWrite(w) /\ ~IsNumericRevision(rev)) =>
                w.val = IF <<w.sid, w.rid>> \in DOMAIN doc.numberOnSheet
                        THEN StrVal(doc.numberOnSheet[<<w.sid, w.rid>>])
                        ELSE IF doc.hasRevisionNumber THEN StrVal(rev.RevisionNumber)
                        ELSE IntVal(rev.SequenceNumber)

SheetWritten(sheet) ==
    \E k \in DOMAIN cellWrites :
        cellWrites[k].sid = sheet.Id /\ cellWrites[k].row >= 10 /\ cellWrites[k].col = <<"A">>

SheetEligible(sheet) ==
    /\ sheet.appears.has /\ sheet.appears.i = 1
    /\ Len(sheet.viewports) >= 1
    /\ AssociationSet(sheet) # {}

\* C7: in a run that completes, a sheet is written as a row of the report
\* iff its flag is set, it has a placed viewport and its revision set is
\* non-empty.
C7_IncludedIffEligible ==
    pc = "done" => \A s \in Range(doc.sheets) : SheetWritten(s) <=> SheetEligible(s)

\* column D + j
ColumnFromD(j) == <<Letters[4 + j]>>

CellHits(page, row, col) ==
    {k \in DOMAIN cellWrites :
        cellWrites[k].page = page /\ cellWrites[k].row = row /\ cellWrites[k].col = col}

PageFilled(k) == pagesAccessed[k].ws_index <= template.pages

\* C10: on every filled page the cell (row 10+i, column D+j) is written
\* exactly once, with the label of the revision whose date heads that
\* column, if the revision at column j is in the association set of the
\* sheet at row i, and never otherwise; no other body cell is written.
C10_IntersectionCells ==
    /\ \A p \in DOMAIN pagesAccessed :
          LET pg == pagesAccessed[p]
          IN  PageFilled(p) =>
                \A i \in DOMAIN pg.sheets, j \in DOMAIN pg.revs :
                    LET hits == CellHits(pg.ws_index, 10 + (i - 1), ColumnFromD(j - 1))
                    IN  /\ Cardinality(hits) =
                              IF pg.revs[j] \in AssociationSet(DocSheet(pg.sheets[i]))
                              THEN 1 ELSE 0
                        /\ \A k \in hits :
                              /\ cellWrites[k].rid = pg.revs[j]
                              /\ cellWrites[k].sid = pg.sheets[i]
                              /\ \E h \in CellHits(pg.ws_index, 6, ColumnFromD(j - 1)) :
                                    cellWrites[h].rid = pg.revs[j]
    /\ \A k \in DOMAIN cellWrites :
          IsLabelWrite(cellWrites[k]) =>
              \E p \in DOMAIN pagesAccessed :
                  LET pg == pagesAccessed[p]
                  IN  /\ pg.ws_index = cellWrites[k].page
                      /\ \E i \in DOMAIN pg.sheets, j \in DOMAIN pg.revs :
                            /\ cellWrites[k].row = 10 + (i - 1)
                            /\ cellWrites[k].col = ColumnFromD(j - 1)

\* a filled page with two revision columns where one sheet has a label in
\* one column and not in the other
C10_Witness ==
    \E p \in DOMAIN pagesAccessed :
        LET pg == pagesAccessed[p]
        IN  /\ PageFilled(p)
            /\ Len(pg.revs) = 2
            /\ \E i \in DOMAIN pg.sheets :
                  /\ CellHits(pg.ws_index, 10 + (i - 1), ColumnFromD(0)) = {}
                  /\ CellHits(pg.ws_index, 10 + (i - 1), ColumnFromD(1)) # {}

\* digits{1,2} separator digits{1,2} separator digits{2,4}, separator . or /
AcceptedDate(d) ==
    \E i \in 1..Len(d), j \in 1..Len(d) :
        /\ i < j
        /\ d[i] \in {".", "/"} /\ d[j] \in {".", "/"}
        /\ \A k \in 1..Len(d) : k \notin {i, j} => IsDigit(d[k])
        /\ i - 1 \in 1..2
        /\ j - i - 1 \in 1..2
        /\ Len(d) - j \in 2..4

AssignedToIncludedSheet(rid) ==
    \E s \in Range(doc.sheets) : SheetEligible(s) /\ rid \in AssociationSet(s)

RawNumber(rev) ==
    IF doc.hasRevisionNumber THEN StrVal(rev.RevisionNumber) ELSE IntVal(rev.SequenceNumber)

DiscoveryIndex(rid) == CHOOSE k \in DOMAIN doc.revisions : doc.revisions[k].Id = rid

DrawingAttr(k) ==
    IF IsProjectParam(DrawingParams[k]) THEN doc.projectInfo[DrawingParams[k]]
    ELSE doc.sheets[1].params[DrawingParams[k]]

TrimmedAttr(k) ==
    IF DrawingAttr(k).has /\ ~DrawingAttr(k).null THEN strip(DrawingAttr(k).s) ELSE <<>>

NoEmptySegment(s) ==
    s = <<>> \/ /\ s[1] # "-"
                /\ s[Len(s)] # "-"
                /\ \A k \in 1..(Len(s) - 1) : ~(s[k] = "-" /\ s[k + 1] = "-")

\* C9: get_drawing_number returns the trimmed values of exactly the
\* attributes that are non-empty after trimming, in attribute order, joined
\* by single hyphens, with no empty segment.
C9_DrawingNumberComposition ==
    pc = "returned" /\ rev_data = <<>> =>
        /\ drawing_number =
              join(<<"-">>, SelectSeq([k \in 1..Len(DrawingParams) |-> TrimmedAttr(k)],
                                      LAMBDA t : t # <<>>))
        /\ NoEmptySegment(drawing_number)

====
